---- MODULE Spec2Model ----
(***************************************************************************)
(* The static asset pipeline of occultist-extensions (StaticExtension):    *)
(* discovery, hashing and URL minting, reference parsing, dependency       *)
(* graph, action registration, and request-time rewriting.                 *)
(*                                                                         *)
(* Strings are modelled structurally.  A file or directory name is the     *)
(* sequence of its '.'-separated parts (<<"index","en","html">>), a path,  *)
(* an alias or the path of a URL is the sequence of its '/'-separated      *)
(* names.  `${a}-${b}` is string concatenation of parts.                   *)
(***************************************************************************)
EXTENDS Integers, Sequences, FiniteSets, TLC

VARIABLES
  disk,        \* file system: absolute path -> content id (the bytes)
  config,      \* StaticExtensionArgs: [files, directories]
  ext,         \* the StaticExtension instance (its private fields)
  objs,        \* heap of WorkingFileInfo objects: oid -> fields
  loads,       \* one record per call of #load: its locals and position
  streams,     \* one TransformStream per setup call and its awaiter
  log,         \* per load, the events it performed, in program order
  threw,       \* number of setup calls that threw 'already loaded'
  served,      \* what clients have been served: set of [url, body]
  restarts,    \* number of process restarts so far
  call,        \* the last call of an exported function: inputs and outcome
  ssr          \* the server-side render of one page: fetches and render loops

vars ==
  <<disk, config, ext, objs, loads, streams, log, threw, served, restarts, call,
    ssr>>

----------------------------------------------------------------------------
(* Bounds *)

MaxSetups == 2
MaxRestarts == 1
MaxRequests == 1
MaxReferences == 3
MaxServes == 2
MaxImports == 1

----------------------------------------------------------------------------
(* Strings *)

Undefined == "undefined"

Last(s) == s[Len(s)]
Front(s) == SubSeq(s, 1, Len(s) - 1)

IsPrefix(p, s) == Len(p) <= Len(s) /\ SubSeq(s, 1, Len(p)) = p

\* absolutePath.replace(directory, ''): the path below `directory`
StripPrefix(p, s) == IF IsPrefix(p, s) THEN SubSeq(s, Len(p) + 1, Len(s)) ELSE s

\* node:path join(alias, relativePath)
Join(a, b) == a \o b

\* parts[parts.length - 1].split('.')[0] of a '/'-separated string
Friendly(path) == Last(path)[1]

----------------------------------------------------------------------------
(* The configured tables (a configuration the constructor accepts) *)

\* extensions, in insertion order (defaultExtensions restricted to four keys)
ExtensionOrder == <<"css", "js", "ts", "png">>

ExtensionKeys == {ExtensionOrder[i] : i \in 1..Len(ExtensionOrder)}

ContentTypeOf(extension) ==
  CASE extension = "css" -> "text/css"
    [] extension = "js" -> "application/javascript"
    [] extension = "ts" -> "application/javascript"
    [] extension = "png" -> "image/png"
    [] OTHER -> Undefined

\* this.#extensions.get(extension)
ExtensionsGet(extension) == ContentTypeOf(extension)

RootIRI == "https://example.com"
Prefix == << <<"static">> >>

JoinPaths2(origin, a, b) == [origin |-> origin, path |-> a \o b]

NullURL == [origin |-> "null", path |-> <<>>]
NullHash == "null"

----------------------------------------------------------------------------
(* The file system the model runs on.  The directory structure is fixed;   *)
(* the bytes of two files vary (disk).                                     *)

SampleDir == << <<"srv">>, <<"sample">> >>
ImagesDir == SampleDir \o << <<"images">> >>
AppDir == << <<"srv">>, <<"app">> >>
ChartDir == AppDir \o << <<"chart", "js">> >>
PagesDir == << <<"srv">>, <<"pages">> >>
ADir == << <<"srv">>, <<"a">> >>
BDir == << <<"srv">>, <<"b">> >>

FeeCss == SampleDir \o << <<"fee", "css">> >>
FooPng == SampleDir \o << <<"foo", "png">> >>
NotesMd == SampleDir \o << <<"notes", "md">> >>
LogoPng == ImagesDir \o << <<"logo", "png">> >>
FooJs == AppDir \o << <<"foo", "js">> >>
ChartIndexJs == ChartDir \o << <<"index", "js">> >>
MainTs == << <<"nm">>, <<"main", "ts">> >>
JsonPtrJs == << <<"nm">>, <<"json-ptr">>, <<"index", "js">> >>
OtherFooJs == << <<"nm">>, <<"other">>, <<"foo", "js">> >>
LicenseFile == << <<"nm">>, <<"LICENSE">> >>
AXCss == ADir \o << <<"x", "css">> >>
BXCss == BDir \o << <<"x", "css">> >>

AllFiles == {FeeCss, FooPng, FooJs, MainTs, NotesMd, ChartIndexJs, LogoPng,
             JsonPtrJs, OtherFooJs, LicenseFile, AXCss, BXCss}

\* the entries opendir yields for a directory, [name, isDirectory]
Listing(path) ==
  CASE path = SampleDir ->
         << [name |-> <<"fee", "css">>, dir |-> FALSE],
            [name |-> <<"images">>, dir |-> TRUE],
            [name |-> <<"notes", "md">>, dir |-> FALSE],
            [name |-> <<"foo", "png">>, dir |-> FALSE] >>
    [] path = ImagesDir -> << [name |-> <<"logo", "png">>, dir |-> FALSE] >>
    [] path = AppDir ->
         << [name |-> <<"chart", "js">>, dir |-> TRUE],
            [name |-> <<"foo", "js">>, dir |-> FALSE] >>
    [] path = ChartDir -> << [name |-> <<"index", "js">>, dir |-> FALSE] >>
    [] path = ADir -> << [name |-> <<"x", "css">>, dir |-> FALSE] >>
    [] path = BDir -> << [name |-> <<"x", "css">>, dir |-> FALSE] >>
    [] OTHER -> << >>

DirExists(path) == path \in {SampleDir, ImagesDir, AppDir, ChartDir, ADir, BDir}

\* the bytes of every file, before and after an edit of foo.png and foo.js
Bytes(png, js) ==
  [p \in AllFiles |->
     CASE p = FeeCss -> "css1"
       [] p = FooPng -> png
       [] p = FooJs -> js
       [] p = MainTs -> "ts1"
       [] p = NotesMd -> "md1"
       [] p = ChartIndexJs -> "idx1"
       [] p = LogoPng -> "logo1"
       [] p = JsonPtrJs -> "ptr1"
       [] p = OtherFooJs -> "dup1"
       [] p = AXCss -> "css1"
       [] p = BXCss -> "css1"
       [] OTHER -> "lic1"]

Disks == {Bytes("png1", "js1"), Bytes("png2", "jsbad")}

\* a reference as written in a file: origin ("" when none), leading '/',
\* leading './', number of leading '../', then the '/'-separated names
Str(origin, root, dot, up, segs) ==
  [origin |-> origin, root |-> root, dot |-> dot, up |-> up, segs |-> segs]

DotRel(segs) == Str("", FALSE, TRUE, 0, segs)
Plain(segs) == Str("", FALSE, FALSE, 0, segs)

\* what follows `url(foo.png` in the declaration
\* `background: url(foo.png) no-repeat, linear-gradient(red, blue);`
Layered == ") no-repeat, linear-gradient(red, blue"

\* what the bytes hold: whether acorn accepts them, and the references in
\* document order (form: where the reference stands, prop: the css
\* property, rest: what the declaration holds between the reference and
\* the last ')' of its value, when it holds more than one ')')
Content(id) ==
  CASE id = "css1" ->
         [id |-> id, syntax |-> "css",
          refs |-> << [form |-> "url", prop |-> "background",
                       ref |-> Plain(<< <<"foo", "png">> >>),
                       rest |-> ""] >>]
    [] id = "css2" ->
         [id |-> id, syntax |-> "css",
          refs |-> << [form |-> "url", prop |-> "background",
                       ref |-> Plain(<< <<"foo", "png">> >>),
                       rest |-> Layered] >>]
    [] id = "js1" ->
         [id |-> id, syntax |-> "js",
          refs |-> << [form |-> "static", prop |-> "",
                       ref |-> DotRel(<< <<"chart", "js">>, <<"index", "js">> >>)],
                      [form |-> "dynamic", prop |-> "",
                       ref |-> DotRel(<< <<"chart", "js">>, <<"index", "js">> >>)] >>]
    [] id = "jsbad" -> [id |-> id, syntax |-> "bad", refs |-> << >>]
    [] id = "ts1" ->
         [id |-> id, syntax |-> "js",
          refs |-> << [form |-> "static", prop |-> "",
                       ref |-> Str("", FALSE, FALSE, 1,
                                   << <<"static">>, <<"app">>,
                                      <<"foo", "js">> >>)] >>]
    [] id = "ts2" ->
         [id |-> id, syntax |-> "js",
          refs |-> << [form |-> "static", prop |-> "",
                       ref |-> DotRel(<< <<"missing", "js">> >>)] >>]
    [] id = "ts3" ->
         [id |-> id, syntax |-> "js",
          refs |-> << [form |-> "dynamic", prop |-> "",
                       ref |-> DotRel(<< <<"missing", "js">> >>)] >>]
    [] id = "ts4" ->
         [id |-> id, syntax |-> "js",
          refs |-> << [form |-> "dynamic", prop |-> "",
                       ref |-> Str("", FALSE, FALSE, 1,
                                   << <<"static">>, <<"app">>,
                                      <<"foo", "js">> >>)] >>]
    [] OTHER -> [id |-> id, syntax |-> "js", refs |-> << >>]

\* createHash('sha1').update(content).digest('hex'): injective on the bytes
Sha1(id) == "sha1_" \o id

----------------------------------------------------------------------------
(* Configurations (StaticExtensionArgs.files / .directories) *)

SampleAlias == << <<"sample">> >>
AppAlias == << <<"app">> >>

StaticDir(alias, path) == [alias |-> alias, path |-> path]
StaticFile(alias, path) == [alias |-> alias, path |-> path]

Configs ==
  { \* a directory and a declared file whose alias is not its file name
    [directories |-> << StaticDir(SampleAlias, SampleDir) >>,
     files |-> << StaticFile(<< <<"json-ptr">> >>, JsonPtrJs) >>],
    \* a declared file whose alias is the alias of a file of the directory
    [directories |-> << StaticDir(AppAlias, AppDir) >>,
     files |-> << StaticFile(AppAlias \o << <<"foo", "js">> >>, OtherFooJs) >>],
    \* a declared directory that does not exist
    [directories |-> << StaticDir(SampleAlias, SampleDir),
                        StaticDir(<< <<"pages">> >>, PagesDir) >>,
     files |-> << >>],
    \* a declared file with no configured extension, and a TypeScript file
    [directories |-> << StaticDir(AppAlias, AppDir) >>,
     files |-> << StaticFile(<< <<"LICENSE">> >>, LicenseFile),
                  StaticFile(<< <<"main">> >>, MainTs) >>] }

\* two directories that each hold a file x.css of the same bytes
TwinConfig ==
  [directories |-> << StaticDir(<< <<"a">> >>, ADir), StaticDir(<< <<"b">> >>, BDir) >>,
   files |-> << >>]

-----------------------------------------------------------------------------
(* File identity *)

\* new WorkingFileInfo(solo, name, alias, relativePath, absolutePath, ...)
WorkingFileInfo(solo, name, alias, relativePath, absolutePath, extension, contentType, lang) ==
  [name |-> name,
   directoryAlias |-> alias,
   relativePath |-> relativePath,
   absolutePath |-> absolutePath,
   extension |-> extension,
   contentType |-> contentType,
   lang |-> lang,
   alias |-> IF solo THEN alias ELSE Join(alias, relativePath),
   hash |-> NullHash,
   url |-> NullURL,
   aliasURL |-> NullURL,
   frozen |-> FALSE]

\* file.finalize(hash, url, aliasURL), on an object that is not frozen
Finalize(file, hash, url, aliasURL) ==
  [file EXCEPT !.hash = hash, !.url = url, !.aliasURL = aliasURL,
               !.frozen = TRUE]

\* #traverseRe.exec(name)?.groups: the last part is the extension when a
\* character precedes its dot, the part before it the language when a
\* character precedes that one's dot too
TraverseRe(name) ==
  LET n == Len(name) IN
    IF n >= 2 /\ name[n - 1] # ""
    THEN [extension |-> name[n],
          lang |-> IF n >= 3 /\ (name[n - 2] # "" \/ n >= 4)
                   THEN name[n - 1] ELSE Undefined]
    ELSE [extension |-> Undefined, lang |-> Undefined]

\* #staticFileToFileInfo(file)
StaticFileToFileInfo(file) ==
  LET parts == file.path
      name == parts[Len(parts)]
      match == TraverseRe(name)
  IN WorkingFileInfo(TRUE, name, file.alias, <<name>>, file.path,
                     match.extension, ExtensionsGet(match.extension),
                     match.lang)

Throws(evs) == evs # << >> /\ Last(evs).t = "throw"

\* #traverse(directories, root) as the sequence of what the generator
\* does: a yield per file it produces, a throw when opendir rejects
RECURSIVE Traverse(_, _)
RECURSIVE TraverseEntries(_, _, _)

\* one iteration of the `for await (const entry of dir)` loop, then the rest
TraverseEntries(d, root, entries) ==
  IF entries = << >> THEN << >>
  ELSE
    LET entry == Head(entries)
        name == entry.name
        alias == d.alias
        match == TraverseRe(name)
        absolutePath == d.path \o <<name>>
        directory == IF root = << >> THEN d.path ELSE root
        relativePath == StripPrefix(directory, absolutePath)
        contentType == ExtensionsGet(match.extension)
        here ==
          IF contentType = Undefined \/ match.extension = Undefined
          THEN << >>
          ELSE IF entry.dir
          THEN Traverse(<< StaticDir(alias, absolutePath) >>, directory)
          ELSE << [t |-> "yield",
                   file |-> WorkingFileInfo(FALSE, name, alias, relativePath,
                                            absolutePath, match.extension,
                                            contentType, match.lang)] >>
    IN IF Throws(here) THEN here
       ELSE here \o TraverseEntries(d, root, Tail(entries))

Traverse(directories, root) ==
  IF directories = << >> THEN << >>
  ELSE
    LET d == Head(directories) IN
      IF ~DirExists(d.path) THEN << [t |-> "throw"] >>
      ELSE
        LET evs == TraverseEntries(d, root, Listing(d.path)) IN
          IF Throws(evs) THEN evs
          ELSE evs \o Traverse(Tail(directories), root)

----------------------------------------------------------------------------
(* Reference resolver *)

NoFile == [none |-> TRUE]

\* Map.get on a table given as a function
MapGet(map, key) == IF key \in DOMAIN map THEN map[key] ELSE NoFile

\* the strings of this file system that start with '@' and with '#'
AtWords == {"@octiron"}
HashWords == {"#sample", "#json-ptr"}

\* reference.replace(/^\#/, '/') on the first part of a '#' reference
HashStripped(part) ==
  CASE part = "#sample" -> "sample"
    [] part = "#json-ptr" -> "json-ptr"
    [] OTHER -> part

FirstPart(reference) ==
  IF reference.origin = "" /\ ~reference.root /\ ~reference.dot
     /\ reference.up = 0 /\ reference.segs # << >>
  THEN reference.segs[1][1] ELSE ""

StartsWithAt(reference) == FirstPart(reference) \in AtWords
StartsWithHash(reference) == FirstPart(reference) \in HashWords

IncludesSlash(reference) ==
  \/ reference.origin # ""
  \/ reference.root
  \/ reference.dot
  \/ reference.up > 0
  \/ Len(reference.segs) > 1

\* the reference string split at '/', as an alias key is
StrPath(reference) ==
  (IF reference.root THEN << <<"">> >> ELSE << >>)
  \o (IF reference.dot THEN << <<"", "">> >> ELSE << >>)
  \o [i \in 1..reference.up |-> <<"", "", "">>]
  \o reference.segs

\* new URL(reference, base).toString()
ResolveURL(reference, base) ==
  IF reference.origin # ""
  THEN [origin |-> reference.origin, path |-> reference.segs]
  ELSE IF reference.root
  THEN [origin |-> base.origin, path |-> reference.segs]
  ELSE IF StartsWithHash(reference)
  THEN \* a fragment: the base, with the reference after its last name
       [origin |-> base.origin,
        path |-> Front(base.path)
                 \o << Front(Last(base.path))
                       \o <<Last(Last(base.path)) \o reference.segs[1][1]>>
                       \o Tail(reference.segs[1]) >>
                 \o Tail(reference.segs)]
  ELSE LET dir == Front(base.path)
           keep == IF Len(dir) > reference.up THEN Len(dir) - reference.up
                   ELSE 0
       IN [origin |-> base.origin,
           path |-> SubSeq(dir, 1, keep) \o reference.segs]

\* a URL written out as a reference string
URLString(url) == Str(url.origin, FALSE, FALSE, 0, url.path)

\* a resolver with no alias table: every reference is a relative URL
ReferencedLookupAlwaysURL(reference, containingFile) ==
  [table |-> "url", key |-> ResolveURL(reference, containingFile.aliasURL)]

\* the table referencedFile reads and the key it reads it with
ReferencedLookup(reference, containingFile) ==
  IF StartsWithAt(reference) \/ ~IncludesSlash(reference)
  THEN [table |-> "alias", key |-> StrPath(reference)]
  ELSE IF StartsWithHash(reference)
  THEN [table |-> "alias",
        key |-> << <<"">>, <<HashStripped(reference.segs[1][1])>>
                            \o Tail(reference.segs[1]) >>
                \o Tail(reference.segs)]
  ELSE [table |-> "url",
        key |-> ResolveURL(reference, containingFile.aliasURL)]

\* referencedFile(reference, containingFile, filesByURL, filesByAlias)
ReferencedFile(reference, containingFile, filesByURL, filesByAlias) ==
  LET lookup == ReferencedLookup(reference, containingFile) IN
    IF lookup.table = "alias" THEN MapGet(filesByAlias, lookup.key)
    ELSE MapGet(filesByURL, lookup.key)

\* a referencedDependency that gives the resolved relative URL in both cases
ReferencedDependencyResolvedURL(reference, containingFile, filesByURL, filesByAlias, directive) ==
  [url |-> ResolveURL(reference, containingFile.aliasURL),
   directive |-> directive,
   file |-> ReferencedFile(reference, containingFile, filesByURL,
                           filesByAlias)]

\* referencedDependency(reference, containingFile, filesByURL, filesByAlias,
\*                      directive)
ReferencedDependency(reference, containingFile, filesByURL, filesByAlias, directive) ==
  LET file == ReferencedFile(reference, containingFile, filesByURL,
                             filesByAlias)
  IN IF file = NoFile
     THEN [url |-> ResolveURL(reference, containingFile.aliasURL),
           directive |-> directive, file |-> NoFile]
     ELSE [url |-> file.url, directive |-> directive, file |-> file]

----------------------------------------------------------------------------
(* Content parsers and the TypeScript preprocessor.  parse returns         *)
(* [ok, refs], update and process return [ok, body]; ok is FALSE when the  *)
(* call throws.                                                            *)

\* encodeURI on one part of a name (the parts of this file system that
\* hold a character encodeURI escapes)
EncodePart(part) == CASE part = "my file" -> "my%20file" [] OTHER -> part

\* encodeURI(url)
EncodeURI(url) ==
  [url EXCEPT !.path = [i \in 1..Len(url.path) |->
                          [j \in 1..Len(url.path[i]) |->
                             EncodePart(url.path[i][j])]]]

\* defaultDirectives of the css parser
CSSDirectives(property) ==
  CASE property = "@import" -> "style-src"
    [] property = "background" -> "img-src"
    [] property = "background-image" -> "img-src"
    [] property = "src" -> "font-src"
    [] OTHER -> Undefined

IsImport(r) == r.form \in {"static", "dynamic"}

\* what urlRe captures for a url(): its groups are greedy, so the capture
\* runs to the last ')' of the declaration value
Captured(r) ==
  IF r.rest = "" THEN r.ref
  ELSE [r.ref EXCEPT !.segs[Len(r.ref.segs)][Len(Last(r.ref.segs))] =
                        @ \o r.rest]

\* CSSReferenceParser.parse
CSSParse(content, file, filesByURL) ==
  LET Matched(r) == r.form = "url" /\ CSSDirectives(r.prop) # Undefined
      hits == SelectSeq(content.refs, Matched)
  IN [ok |-> TRUE,
      refs |-> [i \in 1..Len(hits) |->
                  LET url == ResolveURL(Captured(hits[i]), file.aliasURL) IN
                    [url |-> url,
                     directive |-> CSSDirectives(hits[i].prop),
                     file |-> MapGet(filesByURL, url)]]]

\* CSSReferenceParser.update
CSSUpdate(content, file, filesByURL) ==
  LET Rewrite(r) ==
        IF r.form # "url" THEN r
        ELSE LET ref == MapGet(filesByURL,
                               ResolveURL(Captured(r), file.aliasURL))
             IN IF ref = NoFile THEN r
                ELSE [r EXCEPT !.ref = URLString(ref.url), !.rest = ""]
  IN [ok |-> TRUE,
      body |-> [id |-> content.id, syntax |-> content.syntax,
                type |-> file.contentType,
                refs |-> [i \in 1..Len(content.refs) |->
                            Rewrite(content.refs[i])]]]

\* JSReferenceParser.parse (acorn throws on what is not a module)
JSParse(content, file, filesByURL, filesByAlias) ==
  LET hits == SelectSeq(content.refs, IsImport) IN
    IF content.syntax # "js" THEN [ok |-> FALSE, refs |-> << >>]
    ELSE [ok |-> TRUE,
          refs |-> [i \in 1..Len(hits) |->
                      ReferencedDependency(hits[i].ref, file, filesByURL,
                                           filesByAlias, "script-src")]]

\* JSReferenceParser.update
JSUpdate(content, file, filesByURL, filesByAlias) ==
  LET Rewrite(r) ==
        IF ~IsImport(r) THEN r
        ELSE LET ref == ReferencedFile(r.ref, file, filesByURL, filesByAlias)
             IN IF ref = NoFile THEN r
                ELSE [r EXCEPT !.ref = URLString(EncodeURI(ref.url))]
  IN IF content.syntax # "js" THEN [ok |-> FALSE, body |-> content]
     ELSE [ok |-> TRUE,
           body |-> [id |-> content.id, syntax |-> content.syntax,
                     type |-> file.contentType,
                     refs |-> [i \in 1..Len(content.refs) |->
                                 Rewrite(content.refs[i])]]]

\* a preprocessor that records import declarations only
TSParseStaticOnly(content, file, filesByURL, filesByAlias) ==
  LET Static(r) == r.form = "static"
      hits == SelectSeq(content.refs, Static)
  IN [ok |-> TRUE,
      refs |-> [i \in 1..Len(hits) |->
                  ReferencedDependency(hits[i].ref, file, filesByURL,
                                       filesByAlias, "script-src")]]

\* TSReferencePreprocessor.parse (createSourceFile does not throw)
TSParse(content, file, filesByURL, filesByAlias) ==
  LET hits == SelectSeq(content.refs, IsImport) IN
    [ok |-> TRUE,
     refs |-> [i \in 1..Len(hits) |->
                 ReferencedDependency(hits[i].ref, file, filesByURL,
                                      filesByAlias, "script-src")]]

\* TSReferencePreprocessor.process: a static import that does not resolve
\* is left, a dynamic one that does not resolve reads ref.url of undefined
TSProcess(content, file, filesByURL, filesByAlias) ==
  LET Found(r) == ReferencedFile(r.ref, file, filesByURL, filesByAlias)
      Rewrite(r) ==
        IF ~IsImport(r) \/ Found(r) = NoFile THEN r
        ELSE [r EXCEPT !.ref = URLString(Found(r).url)]
      crash == \E i \in 1..Len(content.refs) :
                 /\ content.refs[i].form = "dynamic"
                 /\ Found(content.refs[i]) = NoFile
  IN IF crash THEN [ok |-> FALSE, body |-> content]
     ELSE [ok |-> TRUE,
           body |-> [id |-> content.id, syntax |-> "js",
                     type |-> Undefined,
                     refs |-> [i \in 1..Len(content.refs) |->
                                 Rewrite(content.refs[i])]]]

\* this.#parsers.get(contentType) with defaultParsers, for the content
\* types of the extension table
ParsersGet(contentType) ==
  CASE contentType = "text/css" -> "css"
    [] contentType = "application/javascript" -> "js"
    [] OTHER -> Undefined

\* this.#preprocessors.get(extension) with defaultPreprocessors
PreprocessorsGet(extension) ==
  IF extension \in {"ts", "mts", "cts"} THEN "ts" ELSE Undefined

\* component.parse(content, file, filesByURL, filesByAlias)
Parse(component, content, file, filesByURL, filesByAlias) ==
  CASE component = "css" -> CSSParse(content, file, filesByURL)
    [] component = "js" -> JSParse(content, file, filesByURL, filesByAlias)
    [] OTHER -> TSParse(content, file, filesByURL, filesByAlias)

----------------------------------------------------------------------------
(* The StaticExtension instance *)

\* a JavaScript Map: keys in insertion order, and the value of each key
EmptyMap == [keys |-> << >>, val |-> << >>]
MapHas(m, k) == k \in DOMAIN m.val
MapSet(m, k, v) ==
  [keys |-> IF MapHas(m, k) THEN m.keys ELSE Append(m.keys, k),
   val |-> (k :> v) @@ m.val]
MapValues(m) == [i \in 1..Len(m.keys) |-> m.val[m.keys[i]]]

Loads == 1..MaxSetups

\* the fields of a new StaticExtension
NewExtension ==
  [loaded |-> FALSE,
   filesByAlias |-> EmptyMap,
   filesByURL |-> EmptyMap,
   filesByExtension |-> EmptyMap,
   filesByContentType |-> EmptyMap,
   hashes |-> EmptyMap,
   actions |-> EmptyMap,
   dependancies |-> [built |-> FALSE, dependancies |-> EmptyMap]]

\* the locals of a call of #load that has not started
NewLoad ==
  [pc |-> "idle",         \* idle, traverse, hash, parse, done, failed
   made |-> 0,            \* WorkingFileInfo objects this load created
   trav |-> 0,            \* what the traverse generator has done so far
   files |-> << >>,       \* const files = Array.from(filesByAlias.values())
   i |-> 0,               \* index of the hashing or the parsing loop
   extIdx |-> 0,          \* position in this.#extensions.entries()
   component |-> Undefined,            \* parser or preprocessor in use
   dependancies |-> EmptyMap,          \* the map of the current extension
   dependancyMaps |-> << >>]

NewStream == [made |-> FALSE, queue |-> << >>, closed |-> FALSE, read |-> 0,
              awaiter |-> "pending"]

\* an entry of log: what was done, to which alias, or which message
Event(e, alias, msg) == [e |-> e, alias |-> alias, msg |-> msg]

\* no exported function has been called
NoCall == [op |-> "none"]

\* no page is being rendered
NoRender == [op |-> "none"]

\* a table of oids read through the heap
View(map, heap) == [k \in DOMAIN map.val |-> heap[map.val[k]]]

Init ==
  /\ disk \in Disks
  /\ config \in Configs
  /\ ext = NewExtension
  /\ objs = << >>
  /\ loads = [l \in Loads |-> NewLoad]
  /\ streams = [l \in Loads |-> NewStream]
  /\ log = [l \in Loads |-> << >>]
  /\ threw = 0
  /\ served = {}
  /\ restarts = 0
  /\ call = NoCall
  /\ ssr = NoRender

----------------------------------------------------------------------------
(* #load.  A machine state m = [l, disk, config, ext, objs, ld, st, lg]    *)
(* holds what a call of #load reads and writes; each operator below is a   *)
(* piece of #load that runs without suspending.                            *)

\* writer.write(msg)
Write(m, msg) ==
  [m EXCEPT !.st.queue = Append(@, msg), !.lg = Append(@, Event("msg", << >>, msg))]

\* this.#filesByAlias.set(file.alias, file) for a new object
SetNewFile(m, file) ==
  LET oid == <<m.l, m.ld.made + 1>> IN
    [m EXCEPT !.objs = (oid :> file) @@ @,
              !.ld.made = @ + 1,
              !.ext.filesByAlias = MapSet(@, file.alias, oid),
              !.lg = Append(@, Event("discover", file.alias, ""))]

\* the loop over this.#files
RECURSIVE DeclaredFiles(_, _)
DeclaredFiles(m, i) ==
  IF i > Len(m.config.files) THEN m
  ELSE DeclaredFiles(SetNewFile(m, StaticFileToFileInfo(m.config.files[i])),
                     i + 1)

\* #load up to its first await (the first step of the traversal)
LoadBegin(m) ==
  [DeclaredFiles(Write(m, "Gathering files"), 1) EXCEPT !.ld.pc = "traverse"]

\* new DependancyMap(file, references): the references, and the same
\* grouped by directive in the constructor's loop
RECURSIVE GroupPolices(_, _, _)
GroupPolices(references, i, polices) ==
  IF i > Len(references) THEN polices
  ELSE LET d == references[i].directive
           sofar == IF MapHas(polices, d) THEN polices.val[d] ELSE << >>
       IN GroupPolices(references, i + 1,
                       MapSet(polices, d, Append(sofar, references[i])))

DependancyMap(file, references) ==
  [file |-> file, references |-> references,
   polices |-> GroupPolices(references, 1, EmptyMap)]

\* new DependancyGraph(dependancies)
DependancyGraph(dependancies) ==
  [built |-> TRUE, dependancies |-> dependancies]

\* new DependencyMap(file, references) of dependency-graph.ts: nothing is
\* grouped yet
DependencyMap(file, references) ==
  [file |-> file, references |-> references, polices |-> EmptyMap]

\* dependencyMap.finalize()
DependencyFinalize(map) ==
  [map EXCEPT !.polices = GroupPolices(map.references, 1, map.polices)]

\* the aliases the references of the map of alias a point to, among the
\* aliases that have a map
Targets(dependencies, a) ==
  {r.file.alias : r \in {x \in {dependencies.val[a].references[i] :
                                   i \in DOMAIN dependencies.val[a].references} :
                           x.file # NoFile}}
  \cap DOMAIN dependencies.val

\* the aliases reached from the aliases of from in at most n steps
RECURSIVE Reach(_, _, _)
Reach(dependencies, from, n) ==
  IF n = 0 THEN from
  ELSE Reach(dependencies,
             from \cup UNION {Targets(dependencies, a) : a \in from}, n - 1)

\* the loop over i never ends: the list it reads holds a reference to its
\* own map, or to maps that refer to each other, and grows as it is read
MergeHangs(dependencies) ==
  \E a \in DOMAIN dependencies.val :
    a \in Reach(dependencies, Targets(dependencies, a),
                Cardinality(DOMAIN dependencies.val))

\* the merge loop with its bound fixed at n
RECURSIVE MergeUpTo(_, _, _, _)
MergeUpTo(dependencies, k, i, n) ==
  LET references == dependencies.val[k].references IN
    IF i > n THEN dependencies
    ELSE IF references[i].file = NoFile \/ ~MapHas(dependencies, references[i].file.alias)
    THEN MergeUpTo(dependencies, k, i + 1, n)
    ELSE MergeUpTo([dependencies EXCEPT !.val[k].references = @ \o dependencies.val[references[i].file.alias].references], k, i + 1, n)

\* a merge loop that reads the length of the list once, before it starts
MergeLoopOneLevel(dependencies, k, i) ==
  MergeUpTo(dependencies, k, i, Len(dependencies.val[k].references))

\* the loop `for (let i = 0; i < dependencyMap.references.length; i++)` for
\* the map of alias k: the bound is read again at every iteration
RECURSIVE MergeLoop(_, _, _)
MergeLoop(dependencies, k, i) ==
  LET references == dependencies.val[k].references IN
    IF i > Len(references) THEN dependencies
    ELSE IF references[i].file = NoFile
    THEN MergeLoop(dependencies, k, i + 1)
    ELSE IF ~MapHas(dependencies, references[i].file.alias)
    THEN MergeLoop(dependencies, k, i + 1)
    ELSE MergeLoop(
           [dependencies EXCEPT
              !.val[k].references =
                 @ \o dependencies.val[references[i].file.alias].references],
           k, i + 1)

\* the loop over this.dependencies.values(): merge, then finalize
RECURSIVE MergeMaps(_, _)
MergeMaps(dependencies, p) ==
  IF p > Len(dependencies.keys) THEN dependencies
  ELSE LET k == dependencies.keys[p]
           merged == MergeLoop(dependencies, k, 1)
       IN MergeMaps([merged EXCEPT !.val[k] = DependencyFinalize(@)], p + 1)

\* new DependencyGraph(dependencies) of dependency-graph.ts
DependencyGraph(dependencies) ==
  IF MergeHangs(dependencies)
  THEN [hangs |-> TRUE, dependencies |-> dependencies]
  ELSE [hangs |-> FALSE, dependencies |-> MergeMaps(dependencies, 1)]

\* new Map(dependancyMaps.flatMap(map => Array.from(map.entries())))
RECURSIVE FlatMapEntries(_, _, _, _)
FlatMapEntries(maps, i, j, acc) ==
  IF i > Len(maps) THEN acc
  ELSE IF j > Len(maps[i].keys) THEN FlatMapEntries(maps, i + 1, 1, acc)
  ELSE FlatMapEntries(maps, i, j + 1,
                      MapSet(acc, maps[i].keys[j],
                             maps[i].val[maps[i].keys[j]]))

\* an action registered at the path of the file's hashed url, extension kept
ActionKeepsExtension(name, file, oid, hash) ==
  [path |-> Prefix \o << <<Friendly(name) \o "-" \o hash, file.extension>> >>,
   contentType |-> file.contentType,
   file |-> oid,
   preprocessor |-> PreprocessorsGet(file.extension),
   parser |-> ParsersGet(file.contentType)]

\* the registered action of one file: its path and what its handler closes over
Action(name, file, oid, hash) ==
  [path |-> Prefix \o << <<Friendly(name) \o "-" \o hash>> >>,
   contentType |-> file.contentType,
   file |-> oid,
   preprocessor |-> PreprocessorsGet(file.extension),
   parser |-> ParsersGet(file.contentType)]

\* the loop over this.#filesByAlias.entries() that registers the actions
RECURSIVE RegisterActions(_, _)
RegisterActions(m, i) ==
  IF i > Len(m.ext.filesByAlias.keys) THEN m
  ELSE
    LET name == m.ext.filesByAlias.keys[i]
        oid == m.ext.filesByAlias.val[name]
        hash == IF MapHas(m.ext.hashes, name) THEN m.ext.hashes.val[name]
                ELSE Undefined
    IN RegisterActions(
         [m EXCEPT !.ext.actions = MapSet(@, name,
                                          Action(name, m.objs[oid], oid, hash)),
                   !.lg = Append(@, Event("register", name, ""))],
         i + 1)

\* a #load that registers the actions before it builds the graph
LoadFinishRegistersFirst(m) ==
  LET registered == RegisterActions(Write(m, "Registering actions"), 1)
      graphed ==
        [registered EXCEPT !.ext.dependancies =
                             DependancyGraph(
                               FlatMapEntries(m.ld.dependancyMaps, 1, 1,
                                              EmptyMap)),
                           !.lg = Append(@, Event("graph", << >>, ""))]
      finished == Write(graphed, "Finished")
  IN [finished EXCEPT !.st.closed = TRUE,
                      !.lg = Append(@, Event("close", << >>, "")),
                      !.ext.loaded = TRUE,
                      !.ld.pc = "done"]

\* #load from the graph construction to its end
LoadFinish(m) ==
  LET graphed ==
        [m EXCEPT !.ext.dependancies =
                    DependancyGraph(
                      FlatMapEntries(m.ld.dependancyMaps, 1, 1, EmptyMap)),
                  !.lg = Append(@, Event("graph", << >>, ""))]
      registered == RegisterActions(Write(graphed, "Registering actions"), 1)
      finished == Write(registered, "Finished")
  IN [finished EXCEPT !.st.closed = TRUE,
                      !.lg = Append(@, Event("close", << >>, "")),
                      !.ext.loaded = TRUE,
                      !.ld.pc = "done"]

\* the array the parsing loop of the current extension runs over (the live
\* array of the table, not a copy)
ParseList(m) ==
  LET extension == ExtensionOrder[m.ld.extIdx] IN
    IF PreprocessorsGet(extension) # Undefined
    THEN m.ext.filesByExtension.val[extension]
    ELSE m.ext.filesByContentType.val[ContentTypeOf(extension)]

\* the loop over this.#extensions.entries(), up to the next await
RECURSIVE ParseSeek(_)
ParseSeek(m) ==
  IF m.ld.extIdx > Len(ExtensionOrder) THEN LoadFinish(m)
  ELSE
    LET extension == ExtensionOrder[m.ld.extIdx]
        contentType == ContentTypeOf(extension)
        preprocessor == PreprocessorsGet(extension)
        parser == ParsersGet(contentType)
        next == [m EXCEPT !.ld.extIdx = @ + 1]
        start == [m EXCEPT !.ld.i = 1, !.ld.dependancies = EmptyMap,
                           !.ld.component =
                             IF preprocessor # Undefined THEN preprocessor
                             ELSE parser,
                           !.ld.pc = "parse"]
    IN IF preprocessor # Undefined
       THEN IF ~MapHas(m.ext.filesByExtension, extension)
            THEN ParseSeek(next) ELSE start
       ELSE IF parser = Undefined THEN ParseSeek(next)
       ELSE IF ~MapHas(m.ext.filesByContentType, contentType)
            THEN ParseSeek(next) ELSE start

\* one iteration of a parsing loop, resumed when readFile and parse settle
ParseBody(m) ==
  LET oid == ParseList(m)[m.ld.i]
      file == m.objs[oid]
      content == Content(m.disk[file.absolutePath])
      result == Parse(m.ld.component, content, file,
                      View(m.ext.filesByURL, m.objs),
                      View(m.ext.filesByAlias, m.objs))
      parsed == [m EXCEPT !.ld.dependancies =
                            MapSet(@, file.alias,
                                   DependancyMap(file, result.refs)),
                          !.ld.i = @ + 1,
                          !.lg = Append(@, Event("parse", file.alias,
                                                  m.ld.component))]
  IN IF ~result.ok THEN [m EXCEPT !.ld.pc = "failed"]
     ELSE IF parsed.ld.i <= Len(ParseList(parsed)) THEN parsed
     ELSE ParseSeek([parsed EXCEPT !.ld.dependancyMaps =
                                     Append(@, parsed.ld.dependancies),
                                   !.ld.extIdx = @ + 1])

\* joinPaths(rootURL, this.#prefix, file.alias)
AliasURL(file) == JoinPaths2(RootIRI, Prefix, file.alias)

\* joinPaths(rootURL, this.#prefix, `${friendly}-${hash}.${file.extension}`)
\* with friendly taken from file.name
MintURL(file, hash) ==
  JoinPaths2(RootIRI, Prefix,
             << <<file.name[1] \o "-" \o hash, file.extension>> >>)

\* array.push on a list of a Map of lists, created when the key is new
PushTo(map, key, v) ==
  MapSet(map, key, Append(IF MapHas(map, key) THEN map.val[key] ELSE << >>, v))

\* the hashing loop, up to the next await
HashLoop(m) ==
  IF m.ld.i <= Len(m.ld.files) THEN [m EXCEPT !.ld.pc = "hash"]
  ELSE ParseSeek([Write(m, "Building dependancy tree") EXCEPT !.ld.extIdx = 1])

\* one iteration of the hashing loop, resumed when readFile settles;
\* finalize throws on an object that is already frozen
HashBody(m) ==
  LET oid == m.ld.files[m.ld.i]
      file == m.objs[oid]
      hash == Sha1(m.disk[file.absolutePath])
      final == Finalize(file, hash, MintURL(file, hash), AliasURL(file))
  IN IF file.frozen THEN [m EXCEPT !.ld.pc = "failed"]
     ELSE HashLoop(
            [m EXCEPT !.objs[oid] = final,
                      !.ext.hashes = MapSet(@, file.alias, hash),
                      !.ext.filesByAlias = MapSet(@, file.alias, oid),
                      !.ext.filesByURL = MapSet(@, final.aliasURL, oid),
                      !.ext.filesByExtension = PushTo(@, file.extension, oid),
                      !.ext.filesByContentType =
                        PushTo(@, file.contentType, oid),
                      !.ld.i = @ + 1,
                      !.lg = Append(@, Event("hash", file.alias, ""))])

\* the `for await` over #traverse(this.#directories): the generator's next
\* step, the loop body on a yield, and what follows the loop when it ends
TraverseBody(m) ==
  LET events == Traverse(m.config.directories, << >>)
      pos == m.ld.trav + 1
  IN IF pos <= Len(events)
     THEN IF events[pos].t = "throw" THEN [m EXCEPT !.ld.pc = "failed"]
          ELSE [SetNewFile(m, events[pos].file) EXCEPT !.ld.trav = pos]
     ELSE HashLoop(
            [Write(m, "Generating hashes") EXCEPT
               !.ld.files = MapValues(m.ext.filesByAlias),
               !.ld.i = 1])

----------------------------------------------------------------------------
(* Actions *)

Mach(l) ==
  [l |-> l, disk |-> disk, config |-> config, ext |-> ext, objs |-> objs,
   ld |-> loads[l], st |-> streams[l], lg |-> log[l]]

Commit(m) ==
  /\ ext' = m.ext
  /\ objs' = m.objs
  /\ loads' = [loads EXCEPT ![m.l] = m.ld]
  /\ streams' = [streams EXCEPT ![m.l] = m.st]
  /\ log' = [log EXCEPT ![m.l] = m.lg]

Started == {l \in Loads : loads[l].pc # "idle"}

\* a setup whose guard is missing
SetupThrowsNever(e) == FALSE

\* if (this.#loaded) throw new Error('Static extension already loaded')
SetupThrows(e) == e.loaded

\* setup(): the guard, the stream, and #load up to its first await
Setup ==
  /\ Cardinality(Started) + threw < MaxSetups
  /\ IF SetupThrows(ext)
     THEN /\ threw' = threw + 1
          /\ UNCHANGED <<disk, config, ssr, ext, objs, loads, streams, log, served,
                         restarts, call>>
     ELSE /\ \E l \in Loads :
               /\ l = Cardinality(Started) + 1
               /\ Commit(LoadBegin([Mach(l) EXCEPT !.st.made = TRUE]))
          /\ UNCHANGED <<disk, config, ssr, threw, served, restarts, call>>

\* a traversal whose load awaited its progress write: with a chunk unread
\* the load waits for the reader
TraverseStepAwaitsWrite(l) ==
  /\ loads[l].pc = "traverse"
  /\ IF streams[l].read < Len(streams[l].queue)
     THEN Commit([Mach(l) EXCEPT !.ld.pc = "blocked"])
     ELSE Commit(TraverseBody(Mach(l)))
  /\ UNCHANGED <<disk, config, ssr, threw, served, restarts, call>>

\* #load resumes in the traversal
TraverseStep(l) ==
  /\ loads[l].pc = "traverse"
  /\ Commit(TraverseBody(Mach(l)))
  /\ UNCHANGED <<disk, config, ssr, threw, served, restarts, call>>

\* #load resumes in the hashing loop
HashStep(l) ==
  /\ loads[l].pc = "hash"
  /\ Commit(HashBody(Mach(l)))
  /\ UNCHANGED <<disk, config, ssr, threw, served, restarts, call>>

\* #load resumes in a parsing loop
ParseStep(l) ==
  /\ loads[l].pc = "parse"
  /\ Commit(ParseBody(Mach(l)))
  /\ UNCHANGED <<disk, config, ssr, threw, served, restarts, call>>

\* the `for await (const _ of readable)` of then(): one message is read
ReadProgress(l) ==
  /\ streams[l].made
  /\ streams[l].awaiter = "pending"
  /\ streams[l].read < Len(streams[l].queue)
  /\ streams' = [streams EXCEPT ![l].read = @ + 1]
  /\ UNCHANGED <<disk, config, ssr, ext, objs, loads, log, threw, served, restarts, call>>

\* the loop of then() ends when the stream is closed and empty: resolve()
AwaitResolve(l) ==
  /\ streams[l].made
  /\ streams[l].awaiter = "pending"
  /\ streams[l].closed
  /\ streams[l].read = Len(streams[l].queue)
  /\ streams' = [streams EXCEPT ![l].awaiter = "resolved"]
  /\ UNCHANGED <<disk, config, ssr, ext, objs, loads, log, threw, served, restarts, call>>

\* the urls a client can hold: the minted url of a file of the table
KnownURLs ==
  {objs[ext.filesByAlias.val[a]].url :
     a \in {k \in DOMAIN ext.filesByAlias.val :
              objs[ext.filesByAlias.val[k]].frozen}}

\* the path of a request with the file extension of its last name dropped
SansExtension(path) == Front(path) \o << <<Last(path)[1]>> >>

\* the registry's dispatch of a GET: the registered actions whose path is
\* the request's, with or without a file extension (autoFileExtensions)
Dispatch(url) ==
  {a \in DOMAIN ext.actions.val :
     /\ url.origin = RootIRI
     /\ ext.actions.val[a].path \in {url.path, SansExtension(url.path)}}

\* a handler that tries the parser first and the preprocessor second
HandleParserFirst(action) ==
  LET file == objs[action.file]
      content == Content(disk[file.absolutePath])
      filesByURL == View(ext.filesByURL, objs)
      filesByAlias == View(ext.filesByAlias, objs)
  IN IF action.parser = "css" THEN CSSUpdate(content, file, filesByURL)
     ELSE IF action.parser = "js"
     THEN JSUpdate(content, file, filesByURL, filesByAlias)
     ELSE IF action.preprocessor # Undefined
     THEN TSProcess(content, file, filesByURL, filesByAlias)
     ELSE [ok |-> TRUE,
           body |-> [id |-> content.id, syntax |-> content.syntax,
                     type |-> action.contentType, refs |-> content.refs]]

\* the handler given to action.handle: [ok, body] of the response
Handle(action) ==
  LET file == objs[action.file]
      content == Content(disk[file.absolutePath])
      filesByURL == View(ext.filesByURL, objs)
      filesByAlias == View(ext.filesByAlias, objs)
  IN IF action.preprocessor # Undefined
     THEN TSProcess(content, file, filesByURL, filesByAlias)
     ELSE IF action.parser = "css" THEN CSSUpdate(content, file, filesByURL)
     ELSE IF action.parser = "js"
     THEN JSUpdate(content, file, filesByURL, filesByAlias)
     ELSE [ok |-> TRUE,
           body |-> [id |-> content.id, syntax |-> content.syntax,
                     type |-> action.contentType, refs |-> content.refs]]

\* a handler that keeps what it served: the file is entered in the
\* file-by-URL table under its hashed url
HandledStores(e, action, response) ==
  [e EXCEPT !.filesByURL = MapSet(@, objs[action.file].url, action.file)]

\* what the handler leaves of the extension: it assigns ctx.body and writes
\* to no field and no table
Handled(e, action, response) == e

\* a client requests a url it holds and is answered with a body
Respond ==
  /\ \E url \in KnownURLs : \E a \in Dispatch(url) :
       LET response == Handle(ext.actions.val[a]) IN
         /\ response.ok
         /\ [url |-> url, body |-> response.body] \notin served
         /\ served' = served \cup {[url |-> url, body |-> response.body]}
         /\ ext' = Handled(ext, ext.actions.val[a], response)
  /\ UNCHANGED <<disk, config, ssr, objs, loads, streams, log, threw, restarts, call>>

\* the clients of one process make MaxRequests requests
Request ==
  /\ Cardinality(served) < MaxRequests * (restarts + 1)
  /\ Respond

\* the process ends, the file tree changes, and a new process constructs
\* the extension from the same configuration (a restart before any
\* response was served is a run from Init over the other file tree)
Restart ==
  /\ restarts < MaxRestarts
  /\ served # {}
  /\ restarts' = restarts + 1
  /\ disk' \in Disks \ {disk}
  /\ ext' = NewExtension
  /\ objs' = << >>
  /\ loads' = [l \in Loads |-> NewLoad]
  /\ streams' = [l \in Loads |-> NewStream]
  /\ log' = [l \in Loads |-> << >>]
  /\ threw' = 0
  /\ UNCHANGED <<config, ssr, served, call>>

\* the extension is set up and serves requests; nobody reads the progress
\* channels (setup's result is not awaited)
Next ==
  \/ Setup
  \/ \E l \in Loads : TraverseStep(l)
  \/ \E l \in Loads : HashStep(l)
  \/ \E l \in Loads : ParseStep(l)
  \/ Request

Spec == Init /\ [][Next]_vars

\* the continuation of load l that runs when its pending promise settles
LoadStep(l) == TraverseStep(l) \/ HashStep(l) \/ ParseStep(l)

\* load l is at an await of opendir, readFile or parse: the guard of LoadStep
CanStep(l) == loads[l].pc \in {"traverse", "hash", "parse"}

\* the event loop runs every continuation whose promise has settled, and the
\* promises of opendir, readFile and parse settle.  This is weak fairness of
\* each load's steps, WF_vars(LoadStep(l)), written out with the guard of
\* LoadStep in the place of ENABLED <<LoadStep(l)>>_vars (every step of a
\* load changes its position or its counters).
Fairness ==
  \A l \in Loads : ([]<>(~CanStep(l))) \/ ([]<><<LoadStep(l)>>_vars)

InitLive ==
  /\ Init
  /\ disk = Bytes("png1", "js1")

NextLive ==
  \/ Setup
  \/ \E l \in Loads : TraverseStep(l)
  \/ \E l \in Loads : HashStep(l)
  \/ \E l \in Loads : ParseStep(l)

\* the program with its event loop; nobody reads a progress stream
SpecLive == InitLive /\ [][NextLive]_vars /\ Fairness

\* the same program on the twin directories
InitTwin ==
  /\ disk \in Disks
  /\ config = TwinConfig
  /\ ext = NewExtension
  /\ objs = << >>
  /\ loads = [l \in Loads |-> NewLoad]
  /\ streams = [l \in Loads |-> NewStream]
  /\ log = [l \in Loads |-> << >>]
  /\ threw = 0
  /\ served = {}
  /\ restarts = 0
  /\ call = NoCall
  /\ ssr = NoRender

SpecTwin == InitTwin /\ [][Next]_vars

\* the caller awaits the value every setup call returned
InitAwait ==
  /\ Init
  /\ disk = Bytes("png1", "js1")

NextAwait ==
  \/ Setup
  \/ \E l \in Loads : TraverseStep(l)
  \/ \E l \in Loads : HashStep(l)
  \/ \E l \in Loads : ParseStep(l)
  \/ \E l \in Loads : ReadProgress(l)
  \/ \E l \in Loads : AwaitResolve(l)

SpecAwait == InitAwait /\ [][NextAwait]_vars

\* two deployments of one configuration: the first process serves a client,
\* ends, and a second process is set up over a changed file tree
NextDeploy ==
  \/ Setup
  \/ \E l \in Loads : TraverseStep(l)
  \/ \E l \in Loads : HashStep(l)
  \/ \E l \in Loads : ParseStep(l)
  \/ Request
  \/ Restart

SpecDeploy == Init /\ [][NextDeploy]_vars

----------------------------------------------------------------------------
(* The exported functions, called on the tables a setup left behind; a    *)
(* behaviour makes one call.                                               *)

\* a call of #load run from its first await to its end, no other call of
\* setup being in flight
RECURSIVE RunLoad(_)
RunLoad(m) ==
  CASE m.ld.pc = "traverse" -> RunLoad(TraverseBody(m))
    [] m.ld.pc = "hash" -> RunLoad(HashBody(m))
    [] m.ld.pc = "parse" -> RunLoad(ParseBody(m))
    [] OTHER -> m

\* setup() on a new extension, and its #load run to its end
SetUp(cfg, dsk) ==
  RunLoad(LoadBegin([l |-> 1, disk |-> dsk, config |-> cfg,
                     ext |-> NewExtension, objs |-> << >>, ld |-> NewLoad,
                     st |-> [NewStream EXCEPT !.made = TRUE], lg |-> << >>]))

InitCalls ==
  /\ disk \in Disks
  /\ config \in Configs
  /\ LET m == SetUp(config, disk) IN
       /\ ext = m.ext
       /\ objs = m.objs
       /\ loads = [l \in Loads |-> IF l = 1 THEN m.ld ELSE NewLoad]
       /\ streams = [l \in Loads |-> IF l = 1 THEN m.st ELSE NewStream]
       /\ log = [l \in Loads |-> IF l = 1 THEN m.lg ELSE << >>]
  /\ threw = 0
  /\ served = {}
  /\ restarts = 0
  /\ call = NoCall
  /\ ssr = NoRender

\* the finalized files of the file-by-alias table
KnownFiles ==
  {f \in {objs[ext.filesByAlias.val[a]] : a \in DOMAIN ext.filesByAlias.val} :
     f.frozen}

\* reference strings as authors write them
Written ==
  { DotRel(<< <<"foo", "png">> >>),
    Plain(<< <<"foo", "png">> >>),
    DotRel(<< <<"chart", "js">>, <<"index", "js">> >>),
    DotRel(<< <<"missing", "js">> >>),
    Plain(<< <<"missing">> >>),
    Str("", FALSE, FALSE, 1, << <<"static">>, <<"app">>, <<"foo", "js">> >>),
    Plain(<< <<"@octiron">>, <<"core", "js">> >>),
    Plain(<< <<"#sample">>, <<"foo", "png">> >>),
    Plain(<< <<"#sample">> >>),
    Plain(<< <<"#json-ptr">> >>) }

\* the alias of a known file written as a reference, and its alias URL
\* written in full and from the root
References ==
  Written
  \cup {Plain(f.alias) : f \in KnownFiles}
  \cup {URLString(f.aliasURL) : f \in KnownFiles}
  \cup {Str("", TRUE, FALSE, 0, f.aliasURL.path) : f \in KnownFiles}

\* referencedFile(reference, containingFile, filesByURL, filesByAlias) is
\* called on the tables of the extension
ReferencedFileCall ==
  /\ call = NoCall
  /\ \E reference \in References : \E containingFile \in KnownFiles :
       call' = [op |-> "referencedFile",
                reference |-> reference,
                containingFile |-> containingFile,
                lookup |-> ReferencedLookup(reference, containingFile),
                result |-> ReferencedFile(reference, containingFile,
                                          View(ext.filesByURL, objs),
                                          View(ext.filesByAlias, objs))]
  /\ UNCHANGED <<disk, config, ssr, ext, objs, loads, streams, log, threw, served,
                 restarts>>

\* the directives a caller passes (undefined when it passes none)
Directives == {Undefined, "script-src", "img-src"}

\* referencedDependency(reference, containingFile, filesByURL, filesByAlias,
\* directive) is called on the tables of the extension
ReferencedDependencyCall ==
  /\ call = NoCall
  /\ \E reference \in References : \E containingFile \in KnownFiles :
     \E directive \in Directives :
       call' = [op |-> "referencedDependency",
                reference |-> reference,
                containingFile |-> containingFile,
                directive |-> directive,
                result |-> ReferencedDependency(reference, containingFile,
                                                View(ext.filesByURL, objs),
                                                View(ext.filesByAlias, objs),
                                                directive)]
  /\ UNCHANGED <<disk, config, ssr, ext, objs, loads, streams, log, threw, served,
                 restarts>>

\* TypeScript modules: a static and a dynamic import, of a known file and
\* of a file that does not exist
TSModules == {"ts1", "ts2", "ts3", "ts4"}

\* TSReferencePreprocessor.process(content, file, filesByURL, filesByAlias)
\* is called for a TypeScript file of the extension
ProcessCall ==
  /\ call = NoCall
  /\ \E id \in TSModules :
     \E file \in {f \in KnownFiles : PreprocessorsGet(f.extension) = "ts"} :
       call' = [op |-> "process",
                content |-> Content(id),
                file |-> file,
                result |-> TSProcess(Content(id), file,
                                     View(ext.filesByURL, objs),
                                     View(ext.filesByAlias, objs))]
  /\ UNCHANGED <<disk, config, ssr, ext, objs, loads, streams, log, threw, served,
                 restarts>>

\* four script files no table holds, finalized as #load finalizes a file
Nodes == <<"a", "b", "c", "d">>

NodeFile(n) ==
  LET file == StaticFileToFileInfo(
                StaticFile(<< <<n>> >>, << <<"nm">>, <<n, "js">> >>))
  IN Finalize(file, Sha1(n), MintURL(file, Sha1(n)), AliasURL(file))

\* the reference a parser returns for an import of the file of node n
NodeReference(n) ==
  [url |-> NodeFile(n).url, directive |-> "script-src", file |-> NodeFile(n)]

\* the references of one file: to the nodes of `to`, in the order of Nodes
NodeReferences(to) ==
  LET Pick(i) == Nodes[i] \in to
      picked == SelectSeq([i \in 1..Len(Nodes) |-> i], Pick)
  IN [j \in 1..Len(picked) |-> NodeReference(Nodes[picked[j]])]

\* the Map a caller gives to new DependencyGraph: one DependencyMap per
\* node, in the order of Nodes; edges[n] are the nodes that n imports
RECURSIVE NodeMaps(_, _, _)
NodeMaps(edges, i, acc) ==
  IF i > Len(Nodes) THEN acc
  ELSE NodeMaps(edges, i + 1,
                MapSet(acc, NodeFile(Nodes[i]).alias,
                       DependencyMap(NodeFile(Nodes[i]),
                                     NodeReferences(edges[Nodes[i]]))))

NodeSet == {Nodes[i] : i \in 1..Len(Nodes)}

\* new DependencyGraph(dependencies) is called
DependencyGraphCall ==
  /\ call = NoCall
  /\ \E edges \in [NodeSet -> SUBSET NodeSet] :
       /\ \A n \in NodeSet : Cardinality(edges[n]) <= MaxImports
       /\ call' = [op |-> "DependencyGraph",
                   edges |-> edges,
                   dependencies |-> NodeMaps(edges, 1, EmptyMap),
                   result |-> DependencyGraph(NodeMaps(edges, 1, EmptyMap))]
  /\ UNCHANGED <<disk, config, ssr, ext, objs, loads, streams, log, threw, served,
                 restarts>>

\* the orders in which a Map can hold the entries of the four nodes
Orders == {o \in [1 .. Len(Nodes) -> NodeSet] : \A i, j \in 1 .. Len(Nodes) : o[i] = o[j] => i = j}

\* the Map of NodeMaps with its entries set in the order `order`
RECURSIVE NodeMapsIn(_, _, _, _)
NodeMapsIn(order, edges, i, acc) ==
  IF i > Len(order) THEN acc
  ELSE NodeMapsIn(order, edges, i + 1, MapSet(acc, NodeFile(order[i]).alias, DependencyMap(NodeFile(order[i]), NodeReferences(edges[order[i]]))))

\* no node of edges is reached from itself
RECURSIVE Imported(_, _, _)
Imported(edges, from, n) == IF n = 0 THEN from ELSE Imported(edges, from \cup UNION {edges[x] : x \in from}, n - 1)

Acyclic(edges) == \A n \in NodeSet : n \notin Imported(edges, edges[n], Len(Nodes))

\* new DependencyGraph(dependencies) is called on the same DependencyMaps held
\* by Maps of two iteration orders: that of Nodes and `order`
DependencyGraphOrderCall ==
  /\ call = NoCall
  /\ \E edges \in [NodeSet -> SUBSET NodeSet] :
       /\ Acyclic(edges)
       /\ \E order \in Orders :
            call' = [op |-> "DependencyGraphOrder",
                     edges |-> edges,
                     order |-> order,
                     result |-> DependencyGraph(NodeMaps(edges, 1, EmptyMap)),
                     reordered |-> DependencyGraph(NodeMapsIn(order, edges, 1, EmptyMap))]
  /\ UNCHANGED <<disk, config, ssr, ext, objs, loads, streams, log, threw, served, restarts>>

InitGraph ==
  /\ InitCalls
  /\ disk = Bytes("png1", "js1")
  /\ config = CHOOSE c \in Configs : TRUE

NextGraph ==
  \/ DependencyGraphOrderCall

SpecGraph == InitGraph /\ [][NextGraph]_vars

\* the references parsers return: of a file that is known or not, with a
\* directive or (an HTML link with no known rel or as) with none
ParsedReferences ==
  {[url |-> NodeFile("b").url, directive |-> d, file |-> f] :
     d \in Directives, f \in {NodeFile("b"), NoFile}}

\* the reference lists of at most MaxReferences references
ReferenceLists ==
  UNION {[1..n -> ParsedReferences] : n \in 0..MaxReferences}

\* new DependancyMap(file, references), and new DependencyMap(file,
\* references) followed by its finalize()
DependencyMapCall ==
  /\ call = NoCall
  /\ \E references \in ReferenceLists :
     \E class \in {"DependancyMap", "DependencyMap"} :
       call' = [op |-> "DependencyMap",
                class |-> class,
                references |-> references,
                result |->
                  IF class = "DependancyMap"
                  THEN DependancyMap(NodeFile("a"), references)
                  ELSE DependencyFinalize(
                         DependencyMap(NodeFile("a"), references))]
  /\ UNCHANGED <<disk, config, ssr, ext, objs, loads, streams, log, threw, served,
                 restarts>>

\* style sheets and scripts as authors write them
Sheets == {"css1", "css2"}
Scripts == {"js1", "idx1", "ts2", "ts4"}

\* parser.update(content, file, filesByURL, filesByAlias) is called for a
\* file of the extension that has a parser
UpdateCall ==
  /\ call = NoCall
  /\ \E file \in {f \in KnownFiles : ParsersGet(f.contentType) # Undefined} :
     \E id \in IF ParsersGet(file.contentType) = "css" THEN Sheets
                ELSE Scripts :
       call' = [op |-> "update",
                content |-> Content(id),
                file |-> file,
                result |-> IF ParsersGet(file.contentType) = "css"
                           THEN CSSUpdate(Content(id), file,
                                          View(ext.filesByURL, objs))
                           ELSE JSUpdate(Content(id), file,
                                         View(ext.filesByURL, objs),
                                         View(ext.filesByAlias, objs))]
  /\ UNCHANGED <<disk, config, ssr, ext, objs, loads, streams, log, threw, served,
                 restarts>>

\* parser.parse or preprocessor.parse is called for a file of the
\* extension, on the bytes the file has
ParseCall ==
  /\ call = NoCall
  /\ \E file \in KnownFiles :
     \E component \in {PreprocessorsGet(file.extension),
                       ParsersGet(file.contentType)} \ {Undefined} :
       call' = [op |-> "parse",
                component |-> component,
                file |-> file,
                result |-> Parse(component, Content(disk[file.absolutePath]),
                                 file, View(ext.filesByURL, objs),
                                 View(ext.filesByAlias, objs))]
  /\ UNCHANGED <<disk, config, ssr, ext, objs, loads, streams, log, threw, served,
                 restarts>>

\* modules whose imports are import declarations and import() calls with
\* a string for specifier, and bytes that are no module
Modules == Scripts \cup TSModules \cup {"jsbad"}

\* JSReferenceParser.parse or TSReferencePreprocessor.parse is called with
\* a module for a script file of the extension
ParseModuleCall ==
  /\ call = NoCall
  /\ \E file \in {f \in KnownFiles : ParsersGet(f.contentType) = "js"} :
     \E id \in Modules : \E component \in {"js", "ts"} :
       call' = [op |-> "parseModule",
                component |-> component,
                content |-> Content(id),
                file |-> file,
                result |-> Parse(component, Content(id), file,
                                 View(ext.filesByURL, objs),
                                 View(ext.filesByAlias, objs))]
  /\ UNCHANGED <<disk, config, ssr, ext, objs, loads, streams, log, threw, served,
                 restarts>>

\* requests to an extension that is set up, while files are edited
Serve ==
  /\ Cardinality(served) < MaxServes
  /\ Respond

\* a file of the tree is edited while the process runs
Edit ==
  /\ disk' \in Disks \ {disk}
  /\ UNCHANGED <<config, ssr, ext, objs, loads, streams, log, threw, served,
                 restarts, call>>

\* the names callers ask for: the aliases of the table and one it lacks
Names == DOMAIN ext.filesByAlias.val \cup {<< <<"missing">> >>}

\* get(name)
GetCall ==
  /\ call = NoCall
  /\ \E name \in Names :
       call' = [op |-> "get", name |-> name,
                result |-> IF MapHas(ext.actions, name)
                           THEN ext.actions.val[name] ELSE NoFile]
  /\ UNCHANGED <<disk, config, ssr, ext, objs, loads, streams, log, threw, served,
                 restarts>>

\* getFile(alias)
GetFileCall ==
  /\ call = NoCall
  /\ \E alias \in Names :
       call' = [op |-> "getFile", name |-> alias,
                result |-> MapGet(View(ext.filesByAlias, objs), alias)]
  /\ UNCHANGED <<disk, config, ssr, ext, objs, loads, streams, log, threw, served,
                 restarts>>

\* getAsset(assetAlias)
GetAssetCall ==
  /\ call = NoCall
  /\ \E assetAlias \in Names :
       call' = [op |-> "getAsset", name |-> assetAlias,
                result |-> MapGet(View(ext.filesByAlias, objs), assetAlias)]
  /\ UNCHANGED <<disk, config, ssr, ext, objs, loads, streams, log, threw, served,
                 restarts>>

\* the args callers give to hint
HintArgs == {[rel |-> "preload"], [rel |-> "preload", as |-> "image"]}

\* hint(name, args): null, or args with the action's url and the file's
\* content type
HintCall ==
  /\ call = NoCall
  /\ \E name \in Names : \E args \in HintArgs :
       call' = [op |-> "hint", name |-> name, args |-> args,
                result |->
                  IF ~MapHas(ext.filesByAlias, name) \/ ~MapHas(ext.actions, name)
                  THEN NoFile
                  ELSE [href |-> [origin |-> RootIRI,
                                  path |-> ext.actions.val[name].path],
                        type |-> objs[ext.filesByAlias.val[name]].contentType]
                       @@ args]
  /\ UNCHANGED <<disk, config, ssr, ext, objs, loads, streams, log, threw, served,
                 restarts>>

NextCalls ==
  \/ ReferencedFileCall
  \/ ReferencedDependencyCall
  \/ ProcessCall
  \/ DependencyGraphCall
  \/ DependencyMapCall
  \/ UpdateCall
  \/ ParseCall
  \/ ParseModuleCall
  \/ HintCall

SpecCalls == InitCalls /\ [][NextCalls]_vars

NextServe ==
  \/ Serve
  \/ Edit
  \/ GetCall
  \/ GetFileCall
  \/ GetAssetCall
  \/ HintCall
  \/ ProcessCall
  \/ UpdateCall
  \/ ParseCall

SpecServe == InitCalls /\ [][NextServe]_vars

----------------------------------------------------------------------------
(* What the claims speak of *)

\* the positions of log[l] that hold an event of kind e
EventsOf(l, e) == {i \in DOMAIN log[l] : log[l][i].e = e}

\* the file of an alias of the file-by-alias table
FileOf(alias) == objs[ext.filesByAlias.val[alias]]

\* load l met two files of one alias (a load meets a physical file once)
AliasCollision(l) ==
  \E i, j \in EventsOf(l, "discover") :
    i < j /\ log[l][i].alias = log[l][j].alias

\* C1: a load that meets two physical files of one alias fails: it does
\* not complete and registers no action, so neither file silently replaces
\* the other in a pipeline that was set up.
C1_AliasCollisionFailsSetup ==
  \A l \in Loads :
    AliasCollision(l) =>
      loads[l].pc # "done" /\ EventsOf(l, "register") = {}

\* something of load l, or of the reader of its stream, can still run
LoadCanStep(l) ==
  ENABLED (\/ TraverseStep(l) \/ HashStep(l) \/ ParseStep(l)
           \/ ReadProgress(l) \/ AwaitResolve(l))

\* C2: when a stage of a load has thrown and nothing of the load or of the
\* reader of its stream can run any more, the awaited value has rejected
\* (it does not stay pending for ever).
C2_FailedLoadRejects ==
  \A l \in Loads :
    loads[l].pc = "failed" /\ ~LoadCanStep(l) =>
      streams[l].awaiter = "rejected"

\* C3: once the pipeline is loaded, a request for the minted url of a file
\* of the file-by-alias table is dispatched to the action registered under
\* that file's alias.
C3_UrlDispatchesToOwnAction ==
  ext.loaded =>
    \A alias \in DOMAIN ext.filesByAlias.val :
      FileOf(alias).frozen /\ MapHas(ext.actions, alias) =>
        alias \in Dispatch(FileOf(alias).url)

\* C4: the body served for a hashed url is a function of the url, across
\* the two deployments: two responses for one url have one body.
C4_BodyIsFunctionOfURL ==
  \A r1, r2 \in served : r1.url = r2.url => r1.body = r2.body

\* the regular files at any depth under a directory, as paths below it
RECURSIVE FilesUnder(_)
FilesUnder(path) ==
  UNION { IF Listing(path)[i].dir
          THEN { <<Listing(path)[i].name>> \o rel :
                   rel \in FilesUnder(path \o <<Listing(path)[i].name>>) }
          ELSE { <<Listing(path)[i].name>> }
          : i \in DOMAIN Listing(path) }

\* the name ends in an extension of the configured table
HasConfiguredExtension(name) ==
  ExtensionsGet(TraverseRe(name).extension) # Undefined

\* C5: a load whose discovery has ended has discovered every regular file
\* with a configured extension at any depth under each declared directory,
\* under the directory's alias joined with the path below the directory.
C5_DiscoversFilesAtAnyDepth ==
  \A l \in Loads :
    loads[l].pc \in {"hash", "parse", "done"} =>
      \A k \in DOMAIN config.directories :
        \A rel \in FilesUnder(config.directories[k].path) :
          HasConfiguredExtension(Last(rel)) =>
            \E i \in EventsOf(l, "discover") :
              log[l][i].alias = Join(config.directories[k].alias, rel)

\* C6: every FileInfo of the file-by-alias table has an extension that is
\* a key of the extension table and a defined content type.
C6_EveryFileInfoHasConfiguredType ==
  \A alias \in DOMAIN ext.filesByAlias.val :
    /\ FileOf(alias).extension \in ExtensionKeys
    /\ FileOf(alias).contentType # Undefined

\* C7: once the pipeline is loaded, a call of setup throws, starts no load
\* and leaves the tables, the actions, the graph, every load and every
\* stream as they were.
C7_SetupAfterLoadedThrows ==
  [][ext.loaded /\ Setup =>
       /\ threw' = threw + 1
       /\ UNCHANGED <<ext, objs, loads, streams, log>>]_vars

\* a setup call has thrown on a loaded pipeline
C7_Witness == ext.loaded /\ threw > 0

\* the progress messages of a load, in the order #load writes them
Messages ==
  <<"Gathering files", "Generating hashes", "Building dependancy tree",
    "Registering actions", "Finished">>

MessageIndex(msg) == CHOOSE i \in DOMAIN Messages : Messages[i] = msg

\* the place of an event in the order of the stages: each message opens
\* its stage, the work of the stage follows it
Rank(ev) ==
  CASE ev.e = "msg" -> 2 * MessageIndex(ev.msg) - 1
    [] ev.e = "discover" -> 2
    [] ev.e = "hash" -> 4
    [] ev.e = "parse" -> 6
    [] ev.e = "graph" -> 7
    [] ev.e = "register" -> 8
    [] OTHER -> 10

\* a parser or a preprocessor is configured for the file
HasComponent(file) ==
  \/ PreprocessorsGet(file.extension) # Undefined
  \/ ParsersGet(file.contentType) # Undefined

\* C8: in every load the stages run in the order discovery, hashing,
\* parsing, graph, registration: the events of the load are in stage
\* order; when a file is hashed the traversal has ended; when a file is
\* parsed every file the load collected has its hash, url and aliasURL and
\* is in the file-by-URL table; when the graph is built every file with a
\* parser has been parsed; no action exists without the graph; the
\* messages are written in their order and the channel closes after the
\* last one.
C8_StagesInOrder ==
  /\ ext.actions.keys # << >> => ext.dependancies.built
  /\ \A l \in Loads :
       /\ \A i, j \in DOMAIN log[l] :
            i < j => Rank(log[l][i]) <= Rank(log[l][j])
       /\ EventsOf(l, "hash") # {} =>
            /\ loads[l].trav = Len(Traverse(config.directories, << >>))
            /\ Cardinality(EventsOf(l, "discover"))
                 = Len(config.files) + loads[l].trav
       /\ EventsOf(l, "parse") # {} =>
            \A k \in DOMAIN loads[l].files :
              LET file == objs[loads[l].files[k]] IN
                /\ file.frozen
                /\ file.hash # NullHash
                /\ file.url # NullURL
                /\ file.aliasURL # NullURL
                /\ MapHas(ext.filesByURL, file.aliasURL)
       /\ EventsOf(l, "graph") # {} =>
            \A alias \in DOMAIN ext.filesByAlias.val :
              HasComponent(FileOf(alias)) =>
                \E i \in EventsOf(l, "parse") : log[l][i].alias = alias
       /\ IsPrefix(streams[l].queue, Messages)
       /\ streams[l].closed => streams[l].queue = Messages

\* a load has run all its stages and closed its channel
C8_Witness ==
  \E l \in Loads :
    /\ loads[l].pc = "done"
    /\ streams[l].closed
    /\ Cardinality(EventsOf(l, "hash")) > 1
    /\ Cardinality(EventsOf(l, "parse")) > 1
    /\ EventsOf(l, "register") # {}

\* C9: when a stage of a load has failed, no action is registered and the
\* pipeline is not loaded.
C9_FailedStageNeverLoaded ==
  (\E l \in Loads : loads[l].pc = "failed") =>
    ~ext.loaded /\ ext.actions.keys = << >>

\* the parser or the preprocessor that serves the file
ComponentOf(file) ==
  IF PreprocessorsGet(file.extension) # Undefined
  THEN PreprocessorsGet(file.extension)
  ELSE ParsersGet(file.contentType)

\* component.update or component.process
Rewrite(component, content, file, filesByURL, filesByAlias) ==
  CASE component = "css" -> CSSUpdate(content, file, filesByURL)
    [] component = "js" -> JSUpdate(content, file, filesByURL, filesByAlias)
    [] OTHER -> TSProcess(content, file, filesByURL, filesByAlias)

AllResolve(result) ==
  result.ok /\ \A i \in DOMAIN result.refs : result.refs[i].file # NoFile

\* C10: for a file of a loaded pipeline whose references all resolve, the
\* content rewritten by update (or process), parsed again with the same
\* file and tables, has no reference without a file.
C10_RewriteThenParseResolves ==
  ext.loaded =>
    \A alias \in DOMAIN ext.filesByAlias.val :
      LET file == FileOf(alias)
          component == ComponentOf(file)
          content == Content(disk[file.absolutePath])
          filesByURL == View(ext.filesByURL, objs)
          filesByAlias == View(ext.filesByAlias, objs)
          rewritten == Rewrite(component, content, file, filesByURL,
                               filesByAlias)
      IN /\ file.frozen
         /\ component # Undefined
         /\ AllResolve(Parse(component, content, file, filesByURL,
                             filesByAlias))
         /\ rewritten.ok
         => AllResolve(Parse(component, rewritten.body, file, filesByURL,
                             filesByAlias))


\* the alias of file written as a reference has no '/' or starts with '@'
BareForm(file) ==
  StartsWithAt(Plain(file.alias)) \/ ~IncludesSlash(Plain(file.alias))

\* reference, resolved against the alias URL of c, is the alias URL of file
ResolvesTo(reference, c, file) ==
  ResolveURL(reference, c.aliasURL) = file.aliasURL

\* C11 (as amended): resolveFile returns the known file F when it is given
\* F's alias and that alias starts with '@' or holds no '/', and when it is
\* given a reference that holds a '/', starts with neither '@' nor '#', and
\* resolves against the containing file's aliasURL to F.aliasURL.
C11_AliasAndRelativeFormsAgree ==
  call.op = "referencedFile" =>
    \A F \in KnownFiles :
      /\ (call.reference = Plain(F.alias) /\ BareForm(F)) => call.result = F
      /\ ( /\ IncludesSlash(call.reference)
           /\ ~StartsWithAt(call.reference)
           /\ ~StartsWithHash(call.reference)
           /\ ResolvesTo(call.reference, call.containingFile, F) )
         => call.result = F

\* resolveFile was given the alias 'json-ptr' and returned that file
C11_Witness ==
  /\ call.op = "referencedFile"
  /\ call.reference = Plain(<< <<"json-ptr">> >>)
  /\ call.result \in KnownFiles
  /\ call.result.alias = << <<"json-ptr">> >>

\* C11 (as stated): resolveFile returns the known file F for F's alias
\* written as a reference, whatever the alias, and for every reference
\* that resolves against the containing file's aliasURL to F.aliasURL.
C11_AnyAliasAndAnyRelativeAgree ==
  call.op = "referencedFile" =>
    \A F \in KnownFiles :
      /\ call.reference = Plain(F.alias) => call.result = F
      /\ ResolvesTo(call.reference, call.containingFile, F)
         => call.result = F

\* a reference that starts with '#', its '#' replaced by '/', split at '/'
HashAsSlash(reference) ==
  << <<"">>, <<HashStripped(reference.segs[1][1])>> \o Tail(reference.segs[1]) >>
  \o Tail(reference.segs)

\* C12: resolveFile looks every reference that starts with '#' up in the
\* alias table, under the reference with its leading '#' replaced by '/',
\* whether or not the rest of the reference holds a '/'.
C12_HashReferenceIsSlashAlias ==
  (call.op = "referencedFile" /\ StartsWithHash(call.reference)) =>
    /\ call.lookup = [table |-> "alias", key |-> HashAsSlash(call.reference)]
    /\ call.result = MapGet(View(ext.filesByAlias, objs),
                            HashAsSlash(call.reference))

\* what resolveFile returns for the inputs of the last call
Resolved ==
  ReferencedFile(call.reference, call.containingFile,
                 View(ext.filesByURL, objs), View(ext.filesByAlias, objs))

\* C13: resolveReference returns a record with a url; the record holds a
\* file exactly when resolveFile finds one, and then it is that file and
\* url is the file's hashed url; otherwise url is the reference resolved
\* as a relative URL against the containing file's aliasURL.  The
\* directive of the caller is returned unchanged in both cases.
C13_ReferenceRecord ==
  call.op = "referencedDependency" =>
    /\ "url" \in DOMAIN call.result
    /\ call.result.directive = call.directive
    /\ (call.result.file # NoFile) <=> (Resolved # NoFile)
    /\ Resolved # NoFile =>
         /\ call.result.file = Resolved
         /\ call.result.url = Resolved.url
         /\ call.result.url = MintURL(Resolved, Resolved.hash)
    /\ Resolved = NoFile =>
         call.result.url = ResolveURL(call.reference,
                                      call.containingFile.aliasURL)

\* resolveReference found the file of './foo.png' and was given a directive
C13_Witness ==
  /\ call.op = "referencedDependency"
  /\ call.reference = DotRel(<< <<"foo", "png">> >>)
  /\ call.directive = "img-src"
  /\ call.result.file \in KnownFiles
  /\ call.result.url = call.result.file.url

\* the import of position i of content resolves to no known file
Unresolved(content, file, i) ==
  /\ IsImport(content.refs[i])
  /\ ReferencedFile(content.refs[i].ref, file, View(ext.filesByURL, objs),
                    View(ext.filesByAlias, objs)) = NoFile

\* C14: process on a TypeScript module with a static import or a dynamic
\* import() that resolves to no known file does not throw, and it leaves
\* the specifier of that import as written.
C14_ProcessLeavesUnresolvedImports ==
  call.op = "process" =>
    /\ call.result.ok
    /\ \A i \in DOMAIN call.content.refs :
         Unresolved(call.content, call.file, i)
           => call.result.body.refs[i] = call.content.refs[i]

\* the elements of a list
Elements(list) == {list[i] : i \in DOMAIN list}

\* the maps the parsers returned to #load, one entry per alias
ParsedMaps == FlatMapEntries(loads[1].dependancyMaps, 1, 1, EmptyMap).val

\* the maps of the graph of the extension
GraphMaps == ext.dependancies.dependancies.val

\* C15: in the graph that one call of setup builds, every reference the parser gave
\* for a file A is in A's list, for each of them whose file B has a map of
\* its own every reference of B is in A's list too, and A's policies are
\* the grouping of that final list.
C15_GraphMergesTargets ==
  (Started = {1} /\ loads[1].pc = "done") =>
    \A a \in DOMAIN GraphMaps :
      LET initial == ParsedMaps[a].references
          final == GraphMaps[a].references
      IN /\ Elements(initial) \subseteq Elements(final)
         /\ \A r \in Elements(initial) :
              (r.file # NoFile /\ r.file.alias \in DOMAIN GraphMaps)
                => Elements(ParsedMaps[r.file.alias].references)
                     \subseteq Elements(final)
         /\ GraphMaps[a].polices = GroupPolices(final, 1, EmptyMap)

\* the aliases the references of a list point to
AliasesOf(references) ==
  {r.file.alias : r \in {x \in Elements(references) : x.file # NoFile}}

\* the chain a imports b, b imports c, c imports d
Chain == [n \in NodeSet |-> CASE n = "a" -> {"b"} [] n = "b" -> {"c"}
                                [] n = "c" -> {"d"} [] OTHER -> {}]

\* C16: the merge of the graph inlines one level only.  For the chain
\* a -> b -> c -> d, a's map being processed first, the final list of a
\* holds the references to b and to c and not the reference to d.
C16_MergeInlinesOneLevel ==
  (call.op = "DependencyGraph" /\ call.edges = Chain) =>
    /\ ~call.result.hangs
    /\ AliasesOf(call.result.dependencies.val[NodeFile("a").alias].references)
         = {NodeFile("b").alias, NodeFile("c").alias}

\* C17: the policies of a DependencyMap have one entry per directive of
\* its reference list, each entry holds the references of that directive
\* in their order, and a reference with no directive is in the list and in
\* no entry: undefined is not a key of policies.
C17_PoliciesGroupByDirective ==
  call.op = "DependencyMap" =>
    LET polices == call.result.polices.val
        WithDirective(d) ==
          LET Has(r) == r.directive = d IN SelectSeq(call.references, Has)
    IN /\ call.result.references = call.references
       /\ DOMAIN polices
            = {r.directive : r \in Elements(call.references)} \ {Undefined}
       /\ \A d \in DOMAIN polices : polices[d] = WithDirective(d)

\* C18: once setup has completed, no request, no call of parse, update or
\* process and no call of hint, get, getFile or getAsset changes the
\* tables of the extension, its graph and the maps in it (ext), or a
\* FileInfo (objs).
C18_NothingWritesAfterSetup ==
  [][ext.loaded => (ext' = ext /\ objs' = objs)]_vars

\* requests were served and hint returned a link, on a set-up extension
C18_Witness ==
  /\ ext.loaded
  /\ Cardinality(served) = MaxServes
  /\ call.op = "hint"
  /\ call.result # NoFile

\* the one transform of a file, by priority, of the bytes the file has now
Transformed(file) ==
  LET content == Content(disk[file.absolutePath])
      filesByURL == View(ext.filesByURL, objs)
      filesByAlias == View(ext.filesByAlias, objs)
  IN IF PreprocessorsGet(file.extension) # Undefined
     THEN TSProcess(content, file, filesByURL, filesByAlias).body
     ELSE IF ParsersGet(file.contentType) # Undefined
     THEN Rewrite(ParsersGet(file.contentType), content, file, filesByURL,
                  filesByAlias).body
     ELSE [id |-> content.id, syntax |-> content.syntax,
           type |-> file.contentType, refs |-> content.refs]

Target(content, file, i) ==
  IF content.refs[i].form = "url"
  THEN MapGet(View(ext.filesByURL, objs),
              ResolveURL(content.refs[i].ref, file.aliasURL))
  ELSE ReferencedFile(content.refs[i].ref, file, View(ext.filesByURL, objs),
                      View(ext.filesByAlias, objs))

\* C20: update returns the content with every reference to a known file
\* replaced by the hashed url of that file and every other reference as
\* written, so the body holds the hashed url of a file once per reference
\* to it.
C20_UpdateRewritesResolved ==
  (call.op = "update" /\ call.result.ok) =>
    /\ \A i \in DOMAIN call.content.refs :
         LET target == Target(call.content, call.file, i) IN
           IF target = NoFile
           THEN call.result.body.refs[i] = call.content.refs[i]
           ELSE call.result.body.refs[i].ref = URLString(target.url)
    /\ \A F \in KnownFiles :
         Cardinality({i \in DOMAIN call.result.body.refs :
                        call.result.body.refs[i].ref = URLString(F.url)})
         = Cardinality({i \in DOMAIN call.content.refs :
                          Target(call.content, call.file, i) = F})

C22_HintLink ==
  call.op = "hint" =>
    IF MapHas(ext.filesByAlias, call.name) /\ MapHas(ext.actions, call.name)
    THEN LET file == FileOf(call.name) IN
           /\ call.result # NoFile
           /\ \A k \in DOMAIN call.args : call.result[k] = call.args[k]
           /\ DOMAIN call.result = DOMAIN call.args \cup {"href", "type"}
           /\ call.result.type = file.contentType
           /\ call.result.href =
                [origin |-> RootIRI,
                 path |-> Prefix \o
                          << <<Friendly(call.name) \o "-"
                               \o Sha1(disk[file.absolutePath])>> >>]
    ELSE call.result = NoFile

\* hint returned a link for the style sheet of the sample directory
C22_Witness ==
  /\ call.op = "hint"
  /\ call.name = SampleAlias \o << <<"fee", "css">> >>
  /\ call.result # NoFile
  /\ call.result.type = "text/css"
  /\ call.result.href.path = Prefix \o << <<"fee-sha1_css1">> >>

\* hint returned null for a file of a setup that failed before it
\* registered an action
C22_WitnessNull ==
  /\ call.op = "hint"
  /\ MapHas(ext.filesByAlias, call.name)
  /\ call.result = NoFile

\* the tables agree: one action and one hash per file of the file-by-alias
\* table, every file of it finalized, and the file-by-URL table holding
\* each file under its aliasURL
TablesAgree ==
  /\ DOMAIN ext.actions.val = DOMAIN ext.filesByAlias.val
  /\ DOMAIN ext.hashes.val = DOMAIN ext.filesByAlias.val
  /\ \A a \in DOMAIN ext.filesByAlias.val :
       /\ FileOf(a).frozen
       /\ FileOf(a).hash # NullHash
       /\ FileOf(a).url # NullURL
       /\ FileOf(a).aliasURL # NullURL
       /\ MapHas(ext.filesByURL, FileOf(a).aliasURL)
       /\ ext.filesByURL.val[FileOf(a).aliasURL] = ext.filesByAlias.val[a]

\* C23: when setup has completed, the action table, the hash table and the
\* file-by-alias table have the same keys, every FileInfo of the
\* file-by-alias table is finalized, and the file-by-URL table maps each
\* file's aliasURL to that FileInfo.
C23_TablesAgreeWhenLoaded ==
  ext.loaded => TablesAgree

\* one call of setup has completed, no other was made, and the tables agree
C23_SingleSetupAgrees ==
  (ext.loaded /\ Started = {1}) => TablesAgree

-----------------------------------------------------------------------------
\* The server-side render of a page (dev-extension.ts, #renderPage).  One render
\* loop runs per mount point that has a view; the loops share the responses
\* list, the currentLength counter and the count of the enclosing call.

MaxMountPoints == 2
MaxSelections == 2

MountPoints == 1 .. MaxMountPoints
Entities == {"e1", "e2"}

\* what a view selects through Octiron: entities in order, each one selectable
\* once the one before it is in the store
Selections == {s \in UNION {[1 .. n -> Entities] : n \in 0 .. MaxSelections} : \A i, j \in DOMAIN s : s[i] = s[j] => i = j}

\* page.views: the mount points that have a view function
Views == UNION {[M -> Selections] : M \in SUBSET MountPoints}

NewRenderLoop == [pc |-> "start", loopLength |-> 0, awaited |-> 0, passes |-> 0, pushed |-> 0, finalPushed |-> 0, finalPending |-> 0]

\* the entities whose response has settled
Store(s) == {s.responses[i].entity : i \in {j \in DOMAIN s.responses : s.responses[j].settled}}

\* the fetches that have been triggered and have not settled
Pending(s) == {i \in DOMAIN s.responses : ~s.responses[i].settled}

\* responseHook: every fetch Octiron starts is pushed on responses
ResponseHook(s, entity) == [s EXCEPT !.responses = Append(@, [entity |-> entity, settled |-> FALSE])]

\* one run of the view of mount point p: the first selected entity that is not
\* in the store is fetched (not again while its fetch is in flight, when the
\* store keeps track of loading entities)
ViewPass(s, p) ==
  LET sel == s.views[p]
      missing == {i \in DOMAIN sel : sel[i] \notin Store(s)}
      first == CHOOSE i \in missing : \A j \in missing : i <= j
      inflight == {s.responses[i].entity : i \in Pending(s)}
      fetch == missing # {} /\ ~(s.dedupe /\ sel[first] \in inflight)
      t == IF fetch THEN ResponseHook(s, sel[first]) ELSE s
  IN [t EXCEPT !.loops[p].passes = @ + 1, !.loops[p].pushed = IF fetch THEN 1 ELSE 0]

\* render(m(component, ...)): the view runs inside the call or in a later
\* microtask, as the render library has it
Render(s, p, after) ==
  IF s.sync THEN [ViewPass(s, p) EXCEPT !.loops[p].pc = after]
  ELSE [s EXCEPT !.loops[p].pc = IF after = "done" THEN "finalview" ELSE "view"]

\* the head of the do loop: both lengths are taken, then the page is rendered
LoopHead(s, p) ==
  LET len == Len(s.responses)
  IN Render([s EXCEPT !.currentLength = len, !.loops[p].loopLength = len], p, "rendered")

\* the final render with the store as it is
FinalRender(s, p) ==
  Render([s EXCEPT !.loops[p].finalPushed = s.loops[p].pushed, !.loops[p].finalPending = Cardinality(Pending(s))], p, "done")

\* the renderLoop segment that runs when an await resumes: the inner while
\* test, then the outer one
LoopTests(s, p) ==
  LET len == Len(s.responses)
  IN IF s.loops[p].loopLength # len
       THEN [s EXCEPT !.loops[p].loopLength = len, !.loops[p].awaited = len, !.loops[p].pc = "awaiting"]
       ELSE IF len # s.currentLength THEN LoopHead(s, p) ELSE FinalRender(s, p)

RECURSIVE StartLoops(_, _)
\* the for loop over the mount points: each renderLoop runs to its first await
StartLoops(s, p) ==
  IF p > MaxMountPoints THEN s
  ELSE StartLoops(IF p \in DOMAIN s.views THEN LoopHead(s, p) ELSE s, p + 1)

\* #renderPage is called for a page
RenderPage ==
  /\ ssr = NoRender
  /\ \E views \in Views, dedupe \in BOOLEAN, sync \in BOOLEAN :
       ssr' = StartLoops([op |-> "renderPage", views |-> views, dedupe |-> dedupe, sync |-> sync, responses |-> << >>, currentLength |-> 0, count |-> 0, loops |-> [p \in DOMAIN views |-> NewRenderLoop]], 1)
  /\ UNCHANGED <<disk, config, ext, objs, loads, streams, log, threw, served, restarts, call>>

\* a view that render deferred runs
ViewStep(p) ==
  /\ ssr # NoRender
  /\ p \in DOMAIN ssr.views
  /\ ssr.loops[p].pc \in {"view", "finalview"}
  /\ ssr' = [ViewPass(ssr, p) EXCEPT !.loops[p].pc = IF ssr.loops[p].pc = "view" THEN "rendered" ELSE "done"]
  /\ UNCHANGED <<disk, config, ext, objs, loads, streams, log, threw, served, restarts, call>>

\* await render(...) resumes
RenderResume(p) ==
  /\ ssr # NoRender
  /\ p \in DOMAIN ssr.views
  /\ ssr.loops[p].pc = "rendered"
  /\ ssr' = LoopTests(ssr, p)
  /\ UNCHANGED <<disk, config, ext, objs, loads, streams, log, threw, served, restarts, call>>

\* a fetch settles and its entity enters the store
Settle(i) ==
  /\ ssr # NoRender
  /\ i \in Pending(ssr)
  /\ ssr' = [ssr EXCEPT !.responses[i].settled = TRUE]
  /\ UNCHANGED <<disk, config, ext, objs, loads, streams, log, threw, served, restarts, call>>

\* await Promise.all(responses) resumes: the responses the list held at the
\* call have all settled
PromiseAllResume(p) ==
  /\ ssr # NoRender
  /\ p \in DOMAIN ssr.views
  /\ ssr.loops[p].pc = "awaiting"
  /\ \A i \in 1 .. ssr.loops[p].awaited : ssr.responses[i].settled
  /\ ssr' = LoopTests([ssr EXCEPT !.count = @ + 1], p)
  /\ UNCHANGED <<disk, config, ext, objs, loads, streams, log, threw, served, restarts, call>>

\* the fetches triggered so far
Fetches == IF ssr = NoRender THEN {} ELSE DOMAIN ssr.responses

InitRender ==
  /\ InitCalls
  /\ disk = Bytes("png1", "js1")

NextRender ==
  \/ RenderPage
  \/ \E p \in MountPoints : ViewStep(p)
  \/ \E p \in MountPoints : RenderResume(p)
  \/ \E i \in Fetches : Settle(i)
  \/ \E p \in MountPoints : PromiseAllResume(p)

SpecRender == InitRender /\ [][NextRender]_vars

\* the render loops that have made their final render call
Finished == IF ssr = NoRender THEN {} ELSE {p \in DOMAIN ssr.views : ssr.loops[p].pc \in {"finalview", "done"}}

\* C24: with several mount points, whatever the interleaving of their render
\* loops, a loop makes its final render only after a render pass of its own
\* component that triggered no fetch, and with no triggered fetch unsettled.
C24_FinalRenderAfterQuietPass ==
  \A p \in Finished : ssr.loops[p].finalPushed = 0 /\ ssr.loops[p].finalPending = 0

\* the same for a page on which one mount point has a view
C24_SingleMountPoint ==
  \A p \in Finished : DOMAIN ssr.views = {p} => (ssr.loops[p].finalPushed = 0 /\ ssr.loops[p].finalPending = 0)

\* a file that imports itself
SelfReference == [n \in NodeSet |-> IF n = "a" THEN {"a"} ELSE {}]

\* two files that import each other
Cycle == [n \in NodeSet |-> CASE n = "a" -> {"b"} [] n = "b" -> {"a"} [] OTHER -> {}]

\* C25: the construction of the dependency graph terminates for every finite
\* set of DependencyMaps, also when a file references itself and when files
\* reference each other in a cycle.
C25_GraphConstructionTerminates ==
  call.op = "DependencyGraph" => ~call.result.hangs

\* the construction given a self reference or a cycle never returns
C25_SelfReferenceHangs ==
  (call.op = "DependencyGraph" /\ call.edges \in {SelfReference, Cycle}) => call.result.hangs

\* the urls of a reference list
URLs(references) == {references[i].url : i \in DOMAIN references}

\* C26: for reference structures with no cycle the set of urls in the final
\* reference list of each file, and in each of its policies buckets, is the
\* same whatever the iteration order of the Map given to the constructor.
C26_OrderIndependentURLs ==
  call.op = "DependencyGraphOrder" =>
    /\ ~call.result.hangs /\ ~call.reordered.hangs
    /\ \A a \in DOMAIN call.result.dependencies.val :
         LET one == call.result.dependencies.val[a]
             other == call.reordered.dependencies.val[a]
         IN /\ URLs(one.references) = URLs(other.references)
            /\ DOMAIN one.polices.val = DOMAIN other.polices.val
            /\ \A d \in DOMAIN one.polices.val : URLs(one.polices.val[d]) = URLs(other.polices.val[d])

\* the chain a -> b -> c -> d has been built in two orders and the two lists
\* of a hold the same urls a different number of times
C26_Witness ==
  /\ call.op = "DependencyGraphOrder"
  /\ call.edges = Chain
  /\ Len(call.result.dependencies.val[NodeFile("a").alias].references) # Len(call.reordered.dependencies.val[NodeFile("a").alias].references)
  /\ URLs(call.result.dependencies.val[NodeFile("a").alias].references) = {NodeFile(n).url : n \in {"b", "c", "d"}}

\* the files of the alias table that have been given their urls
Minted == {a \in DOMAIN ext.filesByAlias.val : FileOf(a).url # NullURL}

\* C27: after setup two files of different aliases never have the same hashed
\* url nor the same registered action path, also when they have the same base
\* name and the same bytes in different directories (a/x.css and b/x.css).
C27_DistinctAliasesDistinctURLs ==
  ext.loaded =>
    /\ \A a, b \in Minted : a # b => FileOf(a).url # FileOf(b).url
    /\ \A a, b \in DOMAIN ext.actions.val : a # b => ext.actions.val[a].path # ext.actions.val[b].path

\* the loads that have started and have neither finished nor thrown
InProgress == {l \in Loads : loads[l].pc \in {"traverse", "hash", "parse"}}

\* C28: at most one load runs per instance.  A call of setup made while a
\* load is in progress throws and starts no load.
C28_SetupDuringLoadThrows ==
  [][(InProgress # {} /\ Setup) => (threw' = threw + 1 /\ UNCHANGED <<ext, objs, loads, streams, log>>)]_vars

\* no two loads are in progress at once
C28_AtMostOneLoad ==
  Cardinality(InProgress) <= 1

\* the components load l has passed the content of the file of alias to
ParsedBy(l, alias) == {log[l][i].msg : i \in {j \in EventsOf(l, "parse") : log[l][j].alias = alias}}

\* C29: while the graph is built the content of a file is passed to the parse
\* of at most one component: a file whose extension has a preprocessor is
\* parsed by that preprocessor only, never also by the parser of its content
\* type, and not once per extension that maps to its content type.
C29_OneComponentParsesAFile ==
  \A l \in Loads : \A i \in EventsOf(l, "parse") :
    LET alias == log[l][i].alias
        file == FileOf(alias)
    IN /\ Cardinality(ParsedBy(l, alias)) = 1
       /\ PreprocessorsGet(file.extension) # Undefined => ParsedBy(l, alias) = {PreprocessorsGet(file.extension)}

\* a file without a preprocessor is parsed by the parser of its content type
\* and by nothing else
C29_ParserFilesParsedByParser ==
  \A l \in Loads : \A i \in EventsOf(l, "parse") :
    PreprocessorsGet(FileOf(log[l][i].alias).extension) = Undefined => ParsedBy(l, log[l][i].alias) = {ParsersGet(FileOf(log[l][i].alias).contentType)}

\* load l has run to its end: the actions are registered and the instance is
\* loaded
Loaded(l) ==
  /\ loads[l].pc = "done"
  /\ ext.loaded
  /\ DOMAIN ext.actions.val = DOMAIN ext.filesByAlias.val

\* C30: a load that meets no error eventually registers every action and
\* reaches the loaded state although nobody reads its progress stream: every
\* load that has started ends, in an error or loaded.
C30_LoadEndsUndrained ==
  \A l \in Loads : (loads[l].pc # "idle") ~> (loads[l].pc = "failed" \/ Loaded(l))

\* a load is loaded, all its progress messages written and none read
C30_Witness ==
  /\ Loaded(1)
  /\ streams[1].read = 0
  /\ Len(streams[1].queue) = 5
  /\ streams[1].closed
====
